---- MODULE Spec2Model ----
(***************************************************************************)
(* A model of objects/leaderboard.py: the GlobalLeaderboard object (the    *)
(* bounded ordered dict `_scores`, the list `users`, `total_scores`), its  *)
(* refresh / insert_user_score / remove_user_score operations, and the     *)
(* from_md5 / from_cache / from_db acquisition pipeline over the global    *)
(* leaderboard cache.                                                      *)
(*                                                                         *)
(* A score tuple is modelled by the two fields the leaderboard reads:      *)
(* score[USER_ID_IDX] (uid) and score[SCORING_IDX] (val).  A Python dict   *)
(* is a sequence of rows with pairwise distinct uid, in insertion order.   *)
(***************************************************************************)
EXTENDS Integers, Sequences, FiniteSets, TLC

\* ---------------------------------------------------------------- bounds

\* SIZE_LIMIT is 150 in the source (leaderboard.py line 47).  The model
\* scales it down so that a full leaderboard and users below the cut occur.
SIZE_LIMIT == 2
\* User ids are 1..NumUsers.
NumUsers == 3
\* Ranking values (pp or score) are 1..MaxVal.
MaxVal == 3
\* The store returns at most MaxRows rows.
MaxRows == 3

\* from_md5 is called by tasks 1..NumTasks, MaxCalls times in all.
NumTasks == 2
MaxCalls == 3
\* At most MaxInserts scores are inserted into acquired instances, and as
\* many in the statement-by-statement specification.
MaxInserts == 1

Users == 1..NumUsers
Vals == 1..MaxVal

\* ------------------------------------------------------------- variables

VARIABLES
    lb,      \* the GlobalLeaderboard instance under test
    db,      \* the store: every user's best score on the map, in the
             \* order the query returns them (descending ranking value)
    last     \* the last operation applied to lb, its input, and lb and db
             \* before it

\* The acquisition pipeline (from_md5) over the global leaderboard cache.
VARIABLES
    cache,    \* globs.caches.leaderboards: key -> instance id (0: no entry)
    insts,    \* every GlobalLeaderboard constructed so far, by id
    task,     \* each from_md5 caller: where it stands, its key, what it holds
    bmap,     \* the beatmap: the tiers that hold it, its properties
    store,    \* the score rows of each key, as the query returns them
    ncalls,   \* from_md5 calls made so far
    ninserts  \* scores inserted into acquired instances so far

\* The handlers of one instance statement by statement, on one event loop.
VARIABLES
    run       \* the handler that holds the event loop (op "none": no handler
              \* is between two of its statements), the statement it
              \* executes next, its locals, and whether a refresh() call
              \* is suspended in the await of line 174 (1) or not (0)

lbvars == <<lb, db, last, run>>
poolvars == <<cache, insts, task, bmap, store, ncalls>>
acqvars == <<cache, insts, task, bmap, store, ncalls, ninserts>>
vars == <<lb, db, last, run, cache, insts, task, bmap, store, ncalls, ninserts>>

\* ------------------------------------------------- Python dict and list

\* tuple(d.keys())
DictKeys(d) == [i \in 1..Len(d) |-> d[i].uid]

\* k in d
DictHas(d, k) == \E i \in 1..Len(d) : d[i].uid = k

\* d[k]  (only used where k in d)
DictGet(d, k) == d[CHOOSE i \in 1..Len(d) : d[i].uid = k]

\* d[k] = row : an existing key keeps its position, a new key goes last
DictSet(d, k, row) ==
    IF DictHas(d, k)
    THEN [i \in 1..Len(d) |-> IF d[i].uid = k THEN row ELSE d[i]]
    ELSE Append(d, row)

\* del d[k]
DictDel(d, k) == SelectSeq(d, LAMBDA r : r.uid # k)

\* x in l
ListHas(l, x) == \E i \in 1..Len(l) : l[i] = x

\* l.index(x), 0-based, of the first occurrence (only used where x in l)
ListIndex(l, x) ==
    (CHOOSE i \in 1..Len(l) : l[i] = x /\ \A j \in 1..(i - 1) : l[j] # x) - 1

\* l.remove(x): deletes the first occurrence
ListRemove(l, x) ==
    LET i == ListIndex(l, x) + 1
    IN  SubSeq(l, 1, i - 1) \o SubSeq(l, i + 1, Len(l))

\* ------------------------------------------------------ the store's rows

Row == [uid : Users, val : Vals]

\* sql.fetchall of BASE_QUERY: one row per user (completed = BEST),
\* ORDER BY {scoring} DESC, no LIMIT.  Equal values may occur.
StoreResults ==
    UNION { { r \in [1..n -> Row] :
                /\ \A i, j \in 1..n : i < j => r[i].uid # r[j].uid
                /\ \A i \in 1..(n - 1) : r[i].val >= r[i + 1].val }
            : n \in 0..MaxRows }

\* ----------------------------------------------- GlobalLeaderboard: reads

\* user_in_top
UserInTop(l, user_id) == DictHas(l.scores, user_id)

\* user_has_score
UserHasScore(l, user_id) == ListHas(l.users, user_id)

\* has_scores
HasScores(l) == l.users # <<>>

\* get_user_score: the row, or KeyError
GetUserScore(l, user_id) ==
    IF DictHas(l.scores, user_id) THEN DictGet(l.scores, user_id) ELSE "KeyError"

\* GetUserPlacement returning the 0-based index
GetUserPlacementZeroBased(l, user_id) ==
    IF ListHas(l.users, user_id) THEN ListIndex(l.users, user_id)
    ELSE "ValueError"

\* get_user_placement: users.index(user_id) + 1, or ValueError
GetUserPlacement(l, user_id) ==
    IF ListHas(l.users, user_id) THEN ListIndex(l.users, user_id) + 1
    ELSE "ValueError"

\* --------------------------------------------- GlobalLeaderboard: refresh

\* the test of line 185, on the 0-based enumerate index
StoresTuple(idx) == idx + 1 < SIZE_LIMIT

\* the loop of __set_data_from_sql from row idx (0-based) on
RECURSIVE FillFromRows(_, _, _, _)
FillFromRows(scores_db, idx, sc, us) ==
    IF idx >= Len(scores_db) THEN [scores |-> sc, users |-> us]
    ELSE LET score == scores_db[idx + 1]
         IN  FillFromRows(scores_db, idx + 1,
                 IF StoresTuple(idx) THEN DictSet(sc, score.uid, score) ELSE sc,
                 Append(us, score.uid))

\* SetDataFromSql without the two clear() calls of lines 179-180
SetDataFromSqlNoClear(l, scores_db) ==
    LET filled == FillFromRows(scores_db, 0, l.scores, l.users)
    IN  [l EXCEPT !.total_scores = Len(scores_db),
                  !.scores = filled.scores,
                  !.users = filled.users,
                  !.lb_fetch = "MYSQL"]

\* __set_data_from_sql, given the rows __fetch_scores returned
SetDataFromSql(l, scores_db) ==
    LET filled == FillFromRows(scores_db, 0, <<>>, <<>>)
    IN  [l EXCEPT !.total_scores = Len(scores_db),
                  !.scores = filled.scores,
                  !.users = filled.users,
                  !.lb_fetch = "MYSQL"]

\* refresh
RefreshLb(l, scores_db) ==
    IF l.has_leaderboard THEN SetDataFromSql(l, scores_db) ELSE l

\* ---------------------------------------------- GlobalLeaderboard: remove

\* RemoveUserScore without line 306: users keeps the user
RemoveUserScoreKeepUser(l, user_id) ==
    IF DictHas(l.scores, user_id)
    THEN [l EXCEPT !.scores = DictDel(l.scores, user_id)]
    ELSE l

\* remove_user_score
RemoveUserScore(l, user_id) ==
    IF DictHas(l.scores, user_id)
    THEN [l EXCEPT !.scores = DictDel(l.scores, user_id),
                   !.users = ListRemove(l.users, user_id)]
    ELSE l

\* ---------------------------------------------- GlobalLeaderboard: insert

\* s.as_score_tuple(uses_ppboard): the row of score s
AsScoreTuple(s) == [uid |-> s.user_id, val |-> s.scoring]

\* PlaceIdx comparing with > instead of <
PlaceIdxGt(sc, scoring) ==
    IF \E i \in 1..Len(sc) : sc[i].val > scoring
    THEN (CHOOSE i \in 1..Len(sc) :
             /\ sc[i].val > scoring
             /\ \A j \in 1..(i - 1) : ~(sc[j].val > scoring)) - 1
    ELSE -1

\* PlaceIdx comparing with <= instead of <
PlaceIdxLe(sc, scoring) ==
    IF \E i \in 1..Len(sc) : sc[i].val <= scoring
    THEN (CHOOSE i \in 1..Len(sc) :
             /\ sc[i].val <= scoring
             /\ \A j \in 1..(i - 1) : ~(sc[j].val <= scoring)) - 1
    ELSE -1

\* the scan of lines 321-326: the 0-based index of the first row whose
\* ranking value is strictly below `scoring`, or -1
PlaceIdx(sc, scoring) ==
    IF \E i \in 1..Len(sc) : sc[i].val < scoring
    THEN (CHOOSE i \in 1..Len(sc) :
             /\ sc[i].val < scoring
             /\ \A j \in 1..(i - 1) : ~(sc[j].val < scoring)) - 1
    ELSE -1

\* dict.update(other), other a sequence of rows
RECURSIVE DictUpdate(_, _)
DictUpdate(d, other) ==
    IF other = <<>> THEN d
    ELSE DictUpdate(DictSet(d, Head(other).uid, Head(other)), Tail(other))

\* SpliceAt cutting one entry too late
SpliceAtAfter(sc, place_idx, s) ==
    DictUpdate(DictSet(SubSeq(sc, 1, place_idx + 1), s.user_id, AsScoreTuple(s)),
               SubSeq(sc, place_idx + 2, Len(sc)))

\* the dict rebuilt in lines 330-332
SpliceAt(sc, place_idx, s) ==
    DictUpdate(DictSet(SubSeq(sc, 1, place_idx), s.user_id, AsScoreTuple(s)),
               SubSeq(sc, place_idx + 1, Len(sc)))

\* RecalcUsers forgotten: users keeps its old value
RecalcUsersStale(score_dict, old_users) == old_users

\* line 335: users recomputed from the rebuilt dict
RecalcUsers(score_dict, old_users) == DictKeys(score_dict)

\* TrimScores without the trim
TrimScoresNever(score_dict, users) == score_dict

\* TrimScores evicting the first key instead of the last
TrimScoresFirst(score_dict, users) ==
    IF Len(score_dict) > SIZE_LIMIT
    THEN DictDel(score_dict, users[1])
    ELSE score_dict

\* lines 338-339: the trim
TrimScores(score_dict, users) ==
    IF Len(score_dict) > SIZE_LIMIT
    THEN DictDel(score_dict, users[Len(users)])
    ELSE score_dict

\* lines 328-339, once the user's old entry is gone
PlaceScore(l, s) ==
    LET place_idx == PlaceIdx(l.scores, s.scoring)
    IN  IF place_idx = -1 THEN l
        ELSE LET score_dict == SpliceAt(l.scores, place_idx, s)
                 users == RecalcUsers(score_dict, l.users)
             IN  [l EXCEPT !.scores = TrimScores(score_dict, users),
                           !.users = users]

\* insert_user_score
InsertUserScore(l, s) ==
    PlaceScore(IF UserInTop(l, s.user_id)
               THEN RemoveUserScore(l, s.user_id) ELSE l, s)

\* ------------------------------------------------- the store's contents

\* r without user u's row
StoreWithout(r, u) == SelectSeq(r, LAMBDA x : x.uid # u)

\* row x put into the descending list r after every row of value >= x.val
StorePut(r, x) ==
    LET hi == SelectSeq(r, LAMBDA y : y.val >= x.val)
        lo == SelectSeq(r, LAMBDA y : y.val < x.val)
    IN  hi \o <<x>> \o lo

\* the store's rows once score s is user s.user_id's best
StoreInsert(r, s) == StorePut(StoreWithout(r, s.user_id), AsScoreTuple(s))

\* s is a new best score: the user has none yet, or a lower one
NewBest(r, s) ==
    \A i \in 1..Len(r) : r[i].uid = s.user_id => r[i].val < s.scoring

\* the first n rows of r
Top(r, n) == SubSeq(r, 1, IF Len(r) < n THEN Len(r) ELSE n)

\* ------------------------------------------------------------- inputs

ScoreInputs == [user_id : Users, scoring : Vals]

NoInput == [user_id |-> 0, scoring |-> 0]

\* no handler holds the event loop; w: a refresh() call is suspended
RunNone(w) == [op |-> "none", pc |-> "none", s |-> NoInput, idx |-> 0, waiting |-> w]

FetchTiers == {"CACHE", "MYSQL", "API"}

\* the instance as from_db constructs it (lines 240-249)
NewLeaderboard(has_lb, bmap_fetch) ==
    [scores |-> <<>>, users |-> <<>>, total_scores |-> 0,
     has_leaderboard |-> has_lb, bmap_fetch |-> bmap_fetch, lb_fetch |-> "NONE"]

\* ------------------------------------------------- acquisition pipeline

Tasks == 1..NumTasks

\* _create_glob_lb_idx: (bmap_md5, c_mode, mode).  One beatmap; the keys are
\* its (c_mode, mode) variants.
Keys == {"vanilla", "relax"}

TaskIdle == [pc |-> "idle", key |-> "vanilla", bmap_fetch |-> "NONE", res |-> 0, ret |-> 0]

\* no from_md5 call made yet; user 1 holds the lowest score of every board
AcqStart ==
    /\ cache = [k \in Keys |-> 0]
    /\ insts = <<>>
    /\ task = [t \in Tasks |-> TaskIdle]
    /\ store = [k \in Keys |-> <<[uid |-> 1, val |-> 1]>>]
    /\ ncalls = 0
    /\ ninserts = 0

\* leaderboards.get(key): the instance id, 0 when absent
CacheGet(c, k) == c[k]

\* leaderboards.cache(key, instance)
CachePut(c, k, id) == [c EXCEPT ![k] = id]

\* FromCacheHit setting the leaderboard's tag only
FromCacheHitLbOnly(l) == [l EXCEPT !.lb_fetch = "CACHE"]

\* from_cache, on the hit: both fetch tags become CACHE
FromCacheHit(l) == [l EXCEPT !.lb_fetch = "CACHE", !.bmap_fetch = "CACHE"]

\* from_db from line 240 on, for a map with no leaderboard: the instance is
\* constructed, refresh does nothing, the instance is cached and returned
ConstructNoRefresh(t, tk, bmap_fetch) ==
    LET id == Len(insts) + 1
    IN  /\ insts' = Append(insts, NewLeaderboard(FALSE, bmap_fetch))
        /\ cache' = CachePut(cache, tk.key, id)
        /\ task' = [task EXCEPT ![t] = [tk EXCEPT !.pc = "done", !.res = id,
                                           !.ret = id, !.bmap_fetch = bmap_fetch]]

\* from_db from line 240 to the await of __fetch_scores
ConstructAndFetch(t, tk, bmap_fetch) ==
    LET id == Len(insts) + 1
    IN  /\ insts' = Append(insts, NewLeaderboard(TRUE, bmap_fetch))
        /\ cache' = cache
        /\ task' = [task EXCEPT ![t] = [tk EXCEPT !.pc = "fetch_scores", !.res = id,
                                           !.bmap_fetch = bmap_fetch]]

\* from_db from line 237 on, the map resolved
FromDbResolved(t, tk, bmap_fetch) ==
    IF bmap.has_leaderboard
    THEN ConstructAndFetch(t, tk, bmap_fetch)
    ELSE ConstructNoRefresh(t, tk, bmap_fetch)

\* _try_bmap from line 79 on, the map resolved by tier bmap_fetch: an update
\* that is due is awaited before _try_bmap returns
TryBmapResolved(t, tk, bmap_fetch) ==
    IF bmap.deserves_update
    THEN /\ task' = [task EXCEPT ![t] = [tk EXCEPT !.pc = "try_update",
                                            !.bmap_fetch = bmap_fetch]]
         /\ UNCHANGED <<insts, cache>>
    ELSE FromDbResolved(t, tk, bmap_fetch)

\* TryTiers asking the database before the beatmap cache
TryTiersDbFirst(holds) ==
    IF "MYSQL" \in holds THEN "MYSQL"
    ELSE IF "CACHE" \in holds THEN "CACHE"
    ELSE IF "API" \in holds THEN "API"
    ELSE "NONE"

\* _try_bmap, lines 69 to 76: Beatmap.from_cache, else Beatmap.from_db, else
\* Beatmap.from_oapi_v1; the status is the first of them that returns a map
TryTiers(holds) ==
    IF "CACHE" \in holds THEN "CACHE"
    ELSE IF "MYSQL" \in holds THEN "MYSQL"
    ELSE IF "API" \in holds THEN "API"
    ELSE "NONE"

\* from_md5(key): from_cache, and on a miss from_db up to its first await
\* that waits for I/O: a map in the beatmap cache is resolved without one,
\* any other map is looked up in the database and then the API
FromMd5(t, k) ==
    /\ task[t].pc = "idle"
    /\ ncalls < MaxCalls
    /\ ncalls' = ncalls + 1
    /\ IF CacheGet(cache, k) # 0
       THEN /\ insts' = [insts EXCEPT ![CacheGet(cache, k)] = FromCacheHit(@)]
            /\ task' = [task EXCEPT ![t] = [TaskIdle EXCEPT !.pc = "done", !.key = k,
                                               !.ret = CacheGet(cache, k)]]
            /\ cache' = cache
       ELSE IF TryTiers(bmap.holds) = "CACHE"
            THEN TryBmapResolved(t, [TaskIdle EXCEPT !.key = k], "CACHE")
            ELSE /\ task' = [task EXCEPT ![t] = [TaskIdle EXCEPT !.pc = "try_bmap",
                                                    !.key = k,
                                                    !.bmap_fetch = TryTiers(bmap.holds)]]
                 /\ UNCHANGED <<insts, cache>>
    /\ UNCHANGED <<bmap, store, ninserts, lbvars>>

\* _try_bmap resumes from Beatmap.from_db / from_oapi_v1 with the map of the
\* first of these tiers that holds it, and puts it into the beatmap cache
TryBmap(t) ==
    /\ task[t].pc = "try_bmap"
    /\ IF task[t].bmap_fetch = "NONE"
       THEN /\ task' = [task EXCEPT ![t].pc = "done", ![t].ret = 0]
            /\ UNCHANGED <<bmap, insts, cache>>
       ELSE /\ bmap' = [bmap EXCEPT !.holds = @ \cup {"CACHE"}]
            /\ TryBmapResolved(t, task[t], task[t].bmap_fetch)
    /\ UNCHANGED <<store, ncalls, ninserts, lbvars>>

\* the awaited res_bmap.try_update() returns
TryUpdate(t) ==
    /\ task[t].pc = "try_update"
    /\ bmap' = [bmap EXCEPT !.deserves_update = FALSE]
    /\ FromDbResolved(t, task[t], task[t].bmap_fetch)
    /\ UNCHANGED <<store, ncalls, ninserts, lbvars>>

\* the awaited sql.fetchall returns: __set_data_from_sql, cache(), return
FetchScores(t) ==
    /\ task[t].pc = "fetch_scores"
    /\ insts' = [insts EXCEPT ![task[t].res] = SetDataFromSql(@, store[task[t].key])]
    /\ cache' = CachePut(cache, task[t].key, task[t].res)
    /\ task' = [task EXCEPT ![t].pc = "done", ![t].ret = task[t].res]
    /\ UNCHANGED <<bmap, store, ncalls, ninserts, lbvars>>

\* the score a caller inserts into the instance it acquired: one new best,
\* above every row of the store
AcquiredInputs == {[user_id |-> NumUsers, scoring |-> MaxVal]}

\* the caller of from_md5 stores a user's new best score and inserts it into
\* the instance it was given
InsertAcquired(t) ==
    /\ task[t].pc = "done"
    /\ task[t].ret # 0
    /\ ninserts < MaxInserts
    /\ ninserts' = ninserts + 1
    /\ \E s \in AcquiredInputs :
           /\ NewBest(store[task[t].key], s)
           /\ insts' = [insts EXCEPT ![task[t].ret] = InsertUserScore(@, s)]
           /\ store' = [store EXCEPT ![task[t].key] = StoreInsert(@, s)]
    /\ UNCHANGED <<cache, task, bmap, ncalls, lbvars>>

\* the caller is done with what from_md5 returned
Release(t) ==
    /\ task[t].pc = "done"
    /\ task' = [task EXCEPT ![t] = TaskIdle]
    /\ UNCHANGED <<cache, insts, bmap, store, ncalls, ninserts, lbvars>>

\* ------------------------------------------ one instance: specification

\* A fresh instance over any store contents; its map came from the database
\* tier (the tier is a tag only, no operation below reads it).
Init ==
    /\ \E has_lb \in BOOLEAN : lb = NewLeaderboard(has_lb, "MYSQL")
    /\ db \in StoreResults
    /\ last = [op |-> "new", s |-> NoInput, pre |-> lb, predb |-> db]
    /\ run = RunNone(0)
    /\ AcqStart
    /\ bmap = [holds |-> {"MYSQL"}, has_leaderboard |-> lb.has_leaderboard,
               deserves_update |-> FALSE]

\* refresh(): the query returns the store's rows
Refresh ==
    /\ lb' = RefreshLb(lb, db)
    /\ db' = db
    /\ last' = [op |-> "refresh", s |-> NoInput, pre |-> lb, predb |-> db]
    /\ UNCHANGED <<acqvars, run>>

\* A user's new best score s is stored, then insert_user_score(s) is called.
Insert ==
    \E s \in ScoreInputs :
        /\ NewBest(db, s)
        /\ lb' = InsertUserScore(lb, s)
        /\ db' = StoreInsert(db, s)
        /\ last' = [op |-> "insert", s |-> s, pre |-> lb, predb |-> db]
        /\ UNCHANGED <<acqvars, run>>

\* A user's score leaves the store, then remove_user_score(u) is called.
Remove ==
    \E u \in Users :
        /\ lb' = RemoveUserScore(lb, u)
        /\ db' = StoreWithout(db, u)
        /\ last' = [op |-> "remove", s |-> [user_id |-> u, scoring |-> 0],
                    pre |-> lb, predb |-> db]
        /\ UNCHANGED <<acqvars, run>>

Next == Refresh \/ Insert \/ Remove

Spec == Init /\ [][Next]_vars

\* ------------------------------------------- acquisition: specification

\* Nothing acquired yet; the beatmap is held by any of the tiers or by none.
InitAcq ==
    /\ AcqStart
    /\ \E holds \in SUBSET FetchTiers, has_lb \in BOOLEAN, upd \in BOOLEAN :
           bmap = [holds |-> holds, has_leaderboard |-> has_lb, deserves_update |-> upd]
    /\ lb = NewLeaderboard(bmap.has_leaderboard, "NONE")
    /\ db = <<>>
    /\ last = [op |-> "new", s |-> NoInput, pre |-> lb, predb |-> db]
    /\ run = RunNone(0)

NextAcq ==
    \E t \in Tasks :
        \/ \E k \in Keys : FromMd5(t, k)
        \/ TryBmap(t)
        \/ TryUpdate(t)
        \/ FetchScores(t)
        \/ InsertAcquired(t)
        \/ Release(t)

SpecAcq == InitAcq /\ [][NextAcq]_vars

\* --------------------------- one instance, statement by statement

\* Tasks share one event loop: a handler runs from one await to the next
\* without giving up the loop. refresh() has one await (line 174, the
\* query); insert_user_score, remove_user_score and the lookups have none.

\* the loop is free as soon as a lookup is ready anywhere, even between two
\* statements of a running handler
MayObserveAnywhere == TRUE

\* a lookup can run: no handler is between two of its statements; refresh()
\* calls suspended at line 174 do not hold the loop
MayObserve == run.op = "none"

\* refresh() up to the await of __fetch_scores (lines 193, 174); one call
\* is in flight at a time (a second one would resume the same way later)
RefreshCall ==
    /\ run.op = "none"
    /\ lb.has_leaderboard
    /\ run.waiting = 0
    /\ run' = [run EXCEPT !.waiting = 1]
    /\ UNCHANGED <<lb, db, last, acqvars>>

\* the query returns the store's rows; line 176
FetchReturn ==
    /\ run.op = "none"
    /\ run.waiting = 1
    /\ lb' = [lb EXCEPT !.total_scores = Len(db)]
    /\ run' = [run EXCEPT !.op = "refresh", !.pc = "clear_scores",
                          !.waiting = 0]
    /\ last' = [op |-> "refresh", s |-> NoInput, pre |-> lb, predb |-> db]
    /\ UNCHANGED <<db, acqvars>>

\* line 179
ClearScores ==
    /\ run.pc = "clear_scores"
    /\ lb' = [lb EXCEPT !.scores = <<>>]
    /\ run' = [run EXCEPT !.pc = "clear_users"]
    /\ UNCHANGED <<db, last, acqvars>>

\* line 180
ClearUsers ==
    /\ run.pc = "clear_users"
    /\ lb' = [lb EXCEPT !.users = <<>>]
    /\ run' = [run EXCEPT !.pc = "store_row", !.idx = 0]
    /\ UNCHANGED <<db, last, acqvars>>

\* lines 183-185 for row idx
StoreRow ==
    /\ run.pc = "store_row"
    /\ run.idx < Len(db)
    /\ lb' = IF StoresTuple(run.idx)
             THEN [lb EXCEPT !.scores = DictSet(@, db[run.idx + 1].uid,
                                                db[run.idx + 1])]
             ELSE lb
    /\ run' = [run EXCEPT !.pc = "append_user"]
    /\ UNCHANGED <<db, last, acqvars>>

\* line 187 for row idx
AppendUser ==
    /\ run.pc = "append_user"
    /\ lb' = [lb EXCEPT !.users = Append(@, db[run.idx + 1].uid)]
    /\ run' = [run EXCEPT !.pc = "store_row", !.idx = @ + 1]
    /\ UNCHANGED <<db, last, acqvars>>

\* the loop is over; line 189, and refresh() returns
SetFetched ==
    /\ run.pc = "store_row"
    /\ run.idx >= Len(db)
    /\ lb' = [lb EXCEPT !.lb_fetch = "MYSQL"]
    /\ run' = RunNone(run.waiting)
    /\ UNCHANGED <<db, last, acqvars>>

\* A user's new best score s is stored, then insert_user_score(s) is called;
\* line 316
InsertCall ==
    /\ run.op = "none"
    /\ ninserts < MaxInserts
    /\ ninserts' = ninserts + 1
    /\ \E s \in ScoreInputs :
           /\ NewBest(db, s)
           /\ db' = StoreInsert(db, s)
           /\ last' = [op |-> "insert", s |-> s, pre |-> lb, predb |-> db]
           /\ run' = [run EXCEPT !.op = "insert", !.s = s,
                                 !.pc = IF UserInTop(lb, s.user_id)
                                        THEN "del_score" ELSE "place"]
    /\ UNCHANGED <<lb, poolvars>>

\* A user's score leaves the store, then remove_user_score(u) is called;
\* line 304
RemoveCall ==
    /\ run.op = "none"
    /\ \E u \in Users :
           /\ db' = StoreWithout(db, u)
           /\ last' = [op |-> "remove", s |-> [user_id |-> u, scoring |-> 0],
                       pre |-> lb, predb |-> db]
           /\ run' = IF UserInTop(lb, u)
                     THEN [run EXCEPT !.op = "remove", !.pc = "del_score",
                                      !.s = [user_id |-> u, scoring |-> 0]]
                     ELSE run
    /\ UNCHANGED <<lb, acqvars>>

\* line 305
DelScore ==
    /\ run.pc = "del_score"
    /\ lb' = [lb EXCEPT !.scores = DictDel(@, run.s.user_id)]
    /\ run' = [run EXCEPT !.pc = "remove_user"]
    /\ UNCHANGED <<db, last, acqvars>>

\* line 306; remove_user_score returns, to its caller or into line 318
RemoveUser ==
    /\ run.pc = "remove_user"
    /\ lb' = [lb EXCEPT !.users = ListRemove(@, run.s.user_id)]
    /\ run' = IF run.op = "insert"
              THEN [run EXCEPT !.pc = "place"]
              ELSE RunNone(run.waiting)
    /\ UNCHANGED <<db, last, acqvars>>

\* lines 318-333: the scan, the return of line 329, the rebuilt dict assigned
Place ==
    /\ run.pc = "place"
    /\ LET place_idx == PlaceIdx(lb.scores, run.s.scoring)
       IN  IF place_idx = -1
           THEN /\ lb' = lb
                /\ run' = RunNone(run.waiting)
           ELSE /\ lb' = [lb EXCEPT !.scores = SpliceAt(@, place_idx, run.s)]
                /\ run' = [run EXCEPT !.pc = "recalc_users"]
    /\ UNCHANGED <<db, last, acqvars>>

\* line 335
RecalcUsersStep ==
    /\ run.pc = "recalc_users"
    /\ lb' = [lb EXCEPT !.users = RecalcUsers(lb.scores, @)]
    /\ run' = [run EXCEPT !.pc = "trim"]
    /\ UNCHANGED <<db, last, acqvars>>

\* lines 338-339, and insert_user_score returns
Trim ==
    /\ run.pc = "trim"
    /\ lb' = [lb EXCEPT !.scores = TrimScores(@, lb.users)]
    /\ run' = RunNone(run.waiting)
    /\ UNCHANGED <<db, last, acqvars>>

\* a task looks user u up: get_user_score(u), then get_user_placement(u);
\* neither has an await
Lookup ==
    /\ MayObserve
    /\ \E u \in Users :
           last' = [op |-> "lookup", s |-> [user_id |-> u, scoring |-> 0],
                    pre |-> lb, predb |-> db, at |-> run.pc,
                    out |-> [score |-> GetUserScore(lb, u),
                             placement |-> GetUserPlacement(lb, u)]]
    /\ UNCHANGED <<lb, db, run, acqvars>>

NextSteps ==
    \/ RefreshCall \/ FetchReturn \/ ClearScores \/ ClearUsers
    \/ StoreRow \/ AppendUser \/ SetFetched
    \/ InsertCall \/ RemoveCall \/ DelScore \/ RemoveUser
    \/ Place \/ RecalcUsersStep \/ Trim
    \/ Lookup

SpecSteps == Init /\ [][NextSteps]_vars

\* ------------------------------------------------------------ properties

RefreshedOnce == lb.lb_fetch # "NONE"

ValsOf(sc) == [i \in 1..Len(sc) |-> sc[i].val]

RowsOf(sc) == {sc[i] : i \in 1..Len(sc)}

\* 1-based rank of user u in the row list r (0 when absent)
RankIn(r, u) ==
    IF \E i \in 1..Len(r) : r[i].uid = u
    THEN CHOOSE i \in 1..Len(r) : r[i].uid = u
    ELSE 0

\* C1: once refreshed, ranked_scores holds exactly the min(SIZE_LIMIT, k)
\* highest-valued scores among the k per-user bests known (the store's rows):
\* its rows are known bests and its values are those of the top-N prefix of
\* the reference list.
C1_RankedIsTopN ==
    RefreshedOnce =>
        /\ RowsOf(lb.scores) \subseteq RowsOf(db)
        /\ ValsOf(lb.scores) = ValsOf(Top(db, SIZE_LIMIT))

\* C2 as stated: the ranking values of ranked_scores, read in rank order,
\* are strictly descending in every reachable state.
C2_StrictlyDescending ==
    \A i \in 1..(Len(lb.scores) - 1) : lb.scores[i].val > lb.scores[i + 1].val

\* C2 as amended: the ranking values of ranked_scores, read in rank order,
\* never increase (equal neighbours occur) in every reachable state.
C2_Descending ==
    \A i \in 1..(Len(lb.scores) - 1) : lb.scores[i].val >= lb.scores[i + 1].val

\* an insert has just spliced a score next to one of equal value
C2_Witness ==
    /\ last.op = "insert"
    /\ lb.scores # last.pre.scores
    /\ \E i \in 1..(Len(lb.scores) - 1) :
           /\ lb.scores[i].val = lb.scores[i + 1].val
           /\ lb.scores[i + 1].uid = last.s.user_id

\* C3: ranked_scores never has more than SIZE_LIMIT entries, after any
\* refresh, insert or remove.
C3_Bound == Len(lb.scores) <= SIZE_LIMIT

\* an insert into a full ranked_scores has placed a new user and trimmed
C3_Witness ==
    /\ last.op = "insert"
    /\ Len(last.pre.scores) = SIZE_LIMIT
    /\ ~UserInTop(last.pre, last.s.user_id)
    /\ UserInTop(lb, last.s.user_id)
    /\ Len(lb.scores) = SIZE_LIMIT

\* C4: every user_id of ranked_scores is in all_participants, at the index
\* that is its rank position: the keys of ranked_scores are a prefix of
\* all_participants.
C4_Prefix ==
    \A i \in 1..Len(lb.scores) :
        /\ UserHasScore(lb, lb.scores[i].uid)
        /\ ListIndex(lb.users, lb.scores[i].uid) = i - 1

\* a ranked user was removed while participants below the cut exist
C4_Witness ==
    /\ last.op = "remove"
    /\ UserInTop(last.pre, last.s.user_id)
    /\ lb.scores # <<>>
    /\ Len(lb.users) > Len(lb.scores)

\* C5: after a refresh on a map with an enabled leaderboard whose query
\* returned n rows, all_participants is the n user ids in result order,
\* total_participant_count is n and ranked_scores is the first
\* min(n, SIZE_LIMIT) rows.
C5_RefreshLoads ==
    (last.op = "refresh" /\ last.pre.has_leaderboard) =>
        /\ lb.users = DictKeys(db)
        /\ lb.total_scores = Len(db)
        /\ lb.scores = Top(db, SIZE_LIMIT)

\* every user with a row in r has a score in l, and a placement that is the
\* user's rank in r
PlacementsRight(l, r, us) ==
    \A u \in us :
        RankIn(r, u) # 0 =>
            /\ UserHasScore(l, u)
            /\ GetUserPlacement(l, u) = RankIn(r, u)

\* C6 (its case of another user's score entering ranked_scores): after a
\* refresh every holder of a score has its global rank as placement, and when
\* a user without a ranked entry inserts a score, every other holder of a
\* score, those below the top-N included, still has a score and its global
\* rank as placement.
C6_PlacementKept ==
    /\ (last.op = "refresh" /\ last.pre.has_leaderboard) =>
           PlacementsRight(lb, db, Users)
    /\ (/\ last.op = "insert"
        /\ ~UserInTop(last.pre, last.s.user_id)
        /\ PlacementsRight(last.pre, last.predb, Users)) =>
           PlacementsRight(lb, db, Users \ {last.s.user_id})

\* C7: when ranked_scores is full and a user not in it inserts a score above
\* the lowest ranked value, ranked_scores stays full, the new entry stands
\* where the first strictly lower entry stood, the others keep their order,
\* and the formerly last user leaves ranked_scores but stays a participant.
C7_InsertAtCapacity ==
    LET pre == last.pre.scores
        new == AsScoreTuple(last.s)
    IN  (/\ last.op = "insert"
         /\ Len(pre) = SIZE_LIMIT
         /\ ~UserInTop(last.pre, last.s.user_id)
         /\ last.s.scoring > pre[SIZE_LIMIT].val) =>
            /\ Len(lb.scores) = SIZE_LIMIT
            /\ \E k \in 1..SIZE_LIMIT :
                   /\ pre[k].val < new.val
                   /\ \A j \in 1..(k - 1) : pre[j].val >= new.val
                   /\ lb.scores = SubSeq(pre, 1, k - 1) \o <<new>>
                                      \o SubSeq(pre, k, SIZE_LIMIT - 1)
            /\ ~UserInTop(lb, pre[SIZE_LIMIT].uid)
            /\ UserHasScore(lb, pre[SIZE_LIMIT].uid)

\* a new user has entered a full ranked_scores above its first entry's
\* successor, and the last user was evicted
C7_Witness ==
    /\ last.op = "insert"
    /\ Len(last.pre.scores) = SIZE_LIMIT
    /\ ~UserInTop(last.pre, last.s.user_id)
    /\ last.s.scoring > last.pre.scores[SIZE_LIMIT].val
    /\ ~UserInTop(lb, last.pre.scores[SIZE_LIMIT].uid)

\* C8: inserting a strictly higher score for a user already in
\* ranked_scores leaves that user once in ranked_scores and once in
\* all_participants, with the new value, after every entry of equal or
\* higher value and before every lower one, wherever the old entry stood.
C8_ReinsertMoves ==
    LET u == last.s.user_id
    IN  (/\ last.op = "insert"
         /\ UserInTop(last.pre, u)
         /\ last.s.scoring > DictGet(last.pre.scores, u).val) =>
            /\ Cardinality({i \in 1..Len(lb.scores) : lb.scores[i].uid = u}) = 1
            /\ Cardinality({i \in 1..Len(lb.users) : lb.users[i] = u}) = 1
            /\ \A i \in 1..Len(lb.scores) :
                   lb.scores[i].uid = u =>
                       /\ lb.scores[i].val = last.s.scoring
                       /\ \A j \in 1..(i - 1) : lb.scores[j].val >= last.s.scoring
                       /\ \A j \in (i + 1)..Len(lb.scores) :
                              lb.scores[j].val < last.s.scoring

C10_OneInstancePerKey ==
    \A t1, t2 \in Tasks :
        (/\ task[t1].pc = "done" /\ task[t1].ret # 0
         /\ task[t2].pc = "done" /\ task[t2].ret # 0
         /\ task[t1].key = task[t2].key) =>
            /\ task[t1].ret = task[t2].ret
            /\ cache[task[t1].key] = task[t1].ret

\* C11: when the cache holds a leaderboard for key K, from_md5(K) returns
\* that instance at once, with scores, users and total_scores as they were
\* and both fetch tags CACHE; it resolves no beatmap, constructs nothing,
\* issues no score query and leaves the cache and every other instance alone.
C11_CacheFirst ==
    [][\A t \in Tasks :
          (/\ task[t].pc = "idle"
           /\ task'[t].pc # "idle"
           /\ cache[task'[t].key] # 0) =>
              LET id == cache[task'[t].key]
              IN  /\ task'[t].pc = "done"
                  /\ task'[t].ret = id
                  /\ task'[t].res = 0
                  /\ cache' = cache
                  /\ bmap' = bmap
                  /\ store' = store
                  /\ Len(insts') = Len(insts)
                  /\ insts'[id].scores = insts[id].scores
                  /\ insts'[id].users = insts[id].users
                  /\ insts'[id].total_scores = insts[id].total_scores
                  /\ insts'[id].lb_fetch = "CACHE"
                  /\ insts'[id].bmap_fetch = "CACHE"
                  /\ \A j \in 1..Len(insts) : j # id => insts'[j] = insts[j]]_vars

\* a call was served from the cache with an instance that holds scores
C11_Witness ==
    \E t \in Tasks :
        /\ task[t].pc = "done"
        /\ task[t].res = 0
        /\ task[t].ret # 0
        /\ insts[task[t].ret].lb_fetch = "CACHE"
        /\ insts[task[t].ret].bmap_fetch = "CACHE"
        /\ insts[task[t].ret].scores # <<>>

\* C12: on a cache miss where the map resolves but has no leaderboard,
\* from_md5 returns None.
C12_NoneWithoutLeaderboard ==
    \A t \in Tasks :
        (/\ task[t].pc = "done"
         /\ task[t].res # 0
         /\ ~insts[task[t].res].has_leaderboard) =>
            task[t].ret = 0

\* the order in which _try_bmap asks the tiers
TierOrder == <<"CACHE", "MYSQL", "API">>

\* C19: on a cache miss with a map whose update is due, from_db does not
\* wait for the update: whenever a call waits for try_update, its
\* leaderboard is already constructed.
C19_UpdateNotAwaited ==
    \A t \in Tasks : task[t].pc = "try_update" => task[t].res # 0

\* C20: on a cache miss the status from_db records is the first tier, in the
\* order cache, database, API, that holds the map, and the leaderboard it
\* constructs carries that status; when no tier holds the map the call
\* returns None, constructs nothing, issues no score query and leaves the
\* cache as it was.
C20_TierOrder ==
    [][\A t \in Tasks :
          /\ (/\ task[t].pc = "idle"
              /\ task'[t].pc # "idle"
              /\ cache[task'[t].key] = 0) =>
                 IF bmap.holds = {}
                 THEN task'[t].bmap_fetch = "NONE"
                 ELSE \E i \in 1..Len(TierOrder) :
                          /\ task'[t].bmap_fetch = TierOrder[i]
                          /\ TierOrder[i] \in bmap.holds
                          /\ \A j \in 1..(i - 1) : TierOrder[j] \notin bmap.holds
          /\ (task[t].res = 0 /\ task'[t].res # 0) =>
                 /\ task'[t].bmap_fetch # "NONE"
                 /\ insts'[task'[t].res].bmap_fetch = task'[t].bmap_fetch
          /\ (/\ task[t].pc = "try_bmap"
              /\ task[t].bmap_fetch = "NONE"
              /\ task'[t] # task[t]) =>
                 /\ task'[t].pc = "done"
                 /\ task'[t].ret = 0
                 /\ task'[t].res = 0
                 /\ insts' = insts
                 /\ cache' = cache
                 /\ store' = store]_vars

\* a map held by the API tier only was resolved there, after the cache and
\* the database had none, and the leaderboard returned carries that status
C20_Witness ==
    \E t \in Tasks :
        /\ task[t].pc = "done"
        /\ task[t].res # 0
        /\ task[t].ret = task[t].res
        /\ task[t].bmap_fetch = "API"
        /\ insts[task[t].res].bmap_fetch = "API"

\* C13: total_participant_count equals the number of participants known,
\* len(all_participants): it is the length of the full result after a
\* refresh and still equals len(all_participants) after a remove (the
\* claim's case for inserts is left out here; a remove alone breaks it).
C13_CountIsParticipants ==
    last.op \in {"new", "refresh", "remove"} =>
        lb.total_scores = Len(lb.users)

\* C14: a refresh of an instance with any history of refreshes, inserts and
\* removes leaves it as one refresh of a freshly constructed instance over
\* the same store contents would.
C14_RefreshHistoryFree ==
    (last.op = "refresh" /\ lb.has_leaderboard) =>
        lb = RefreshLb(NewLeaderboard(TRUE, lb.bmap_fetch), db)

\* a refresh has rebuilt an instance that inserts or removes had changed
\* since its previous refresh
C14_Witness ==
    /\ last.op = "refresh"
    /\ last.pre.lb_fetch # "NONE"
    /\ last.pre.scores # <<>>
    /\ last.pre.scores # lb.scores
    /\ last.pre.users # lb.users

\* the rows of r other than user u's, in order
RowsWithout(r, u) ==
    LET Keep(x) == x.uid # u IN SelectSeq(r, Keep)

\* the users of us other than u, in order
UsersWithout(us, u) ==
    LET Keep(x) == x # u IN SelectSeq(us, Keep)

C17_StableInsert ==
    (last.op = "insert" /\ UserInTop(lb, last.s.user_id)) =>
        LET u == last.s.user_id
            v == last.s.scoring
            i == RankIn(lb.scores, u)
            before == RowsWithout(last.pre.scores, u)
            after == RowsWithout(lb.scores, u)
        IN  /\ lb.scores[i].val = v
            /\ i <= Len(before)
            /\ before[i].val < v
            /\ \A j \in 1..(i - 1) : before[j].val >= v
            /\ \A j \in 1..(i - 1) : lb.scores[j].val >= v
            /\ \A j \in (i + 1)..Len(lb.scores) : lb.scores[j].val < v
            /\ Len(after) <= Len(before)
            /\ after = SubSeq(before, 1, Len(after))

\* a new user's score was placed behind an entry of equal value, where the
\* first entry of lower value had been
C17_Witness ==
    /\ last.op = "insert"
    /\ ~UserInTop(last.pre, last.s.user_id)
    /\ RankIn(lb.scores, last.s.user_id) > 1
    /\ lb.scores[RankIn(lb.scores, last.s.user_id) - 1].val = last.s.scoring
    /\ last.pre.scores[RankIn(lb.scores, last.s.user_id)].val < last.s.scoring

\* C16: get_user_score(u) returns u's ranked row exactly when
\* user_in_top(u) and raises KeyError otherwise; get_user_placement(u)
\* returns the 1-based position of u in users exactly when
\* user_has_score(u) and raises ValueError otherwise; neither changes the
\* instance or the store.
C16_LookupsRaise ==
    last.op = "lookup" =>
        /\ lb = last.pre
        /\ db = last.predb
        /\ IF UserInTop(last.pre, last.s.user_id)
           THEN /\ last.out.score \in RowsOf(last.pre.scores)
                /\ last.out.score.uid = last.s.user_id
           ELSE last.out.score = "KeyError"
        /\ IF UserHasScore(last.pre, last.s.user_id)
           THEN /\ last.out.placement \in 1..Len(last.pre.users)
                /\ last.pre.users[last.out.placement] = last.s.user_id
                /\ \A j \in 1..(last.out.placement - 1) :
                       last.pre.users[j] # last.s.user_id
           ELSE last.out.placement = "ValueError"

\* get_user_score raised for a user who is known, at a placement below the
\* ranked entries
C16_Witness ==
    /\ last.op = "lookup"
    /\ UserHasScore(last.pre, last.s.user_id)
    /\ ~UserInTop(last.pre, last.s.user_id)
    /\ last.out.score = "KeyError"
    /\ last.out.placement > Len(lb.scores)

\* C18: with the awaits as the only places where tasks interleave, the
\* instance a lookup can see is never partially rebuilt: it satisfies the
\* bound and the prefix invariant and is what the last refresh, insert or
\* remove leaves as a whole; a lookup never runs between two statements of
\* a handler.
C18_NoPartialRebuildSeen ==
    MayObserve =>
        /\ Len(lb.scores) <= SIZE_LIMIT
        /\ Len(lb.scores) <= Len(lb.users)
        /\ DictKeys(lb.scores) = SubSeq(lb.users, 1, Len(lb.scores))
        /\ last.op = "refresh" => lb = SetDataFromSql(last.pre, last.predb)
        /\ last.op = "insert" => lb = InsertUserScore(last.pre, last.s)
        /\ last.op = "remove" => lb = RemoveUserScore(last.pre, last.s.user_id)
        /\ last.op = "lookup" =>
               /\ last.at = "none"
               /\ lb = last.pre

\* a lookup ran on an instance that holds scores, after an insert, while a
\* refresh() of the same instance was suspended in its query
C18_Witness ==
    /\ last.op = "lookup"
    /\ run.waiting > 0
    /\ ninserts > 0
    /\ lb.scores # <<>>

====
